---- MODULE Spec2Model ----
(***************************************************************************)
(* Model of bluesky-list-processor.py: convert_url_to_at_uri,              *)
(* get_feed_users and the process_list coroutine.                          *)
(*                                                                         *)
(* Strings that the program parses (the list URL, the AT URI) are          *)
(* sequences of lexical atoms: a word ("bsky", "did", "feed") or one       *)
(* punctuation character (":", "/", ".", "?").  startswith, split, `in`    *)
(* and f-string concatenation are the corresponding sequence operations.   *)
(* Strings the program never looks into (a user's did and handle, error    *)
(* messages) are plain TLA+ strings.                                       *)
(*                                                                         *)
(* Remote calls (login, resolve_handle, get_feed, get_list, block.create,  *)
(* mute_actor) either return or raise; the server's answer is a            *)
(* nondeterministic input of the step that makes the call.  The local      *)
(* file write of line 143-144 is taken to succeed.                         *)
(***************************************************************************)
EXTENDS Integers, Sequences, FiniteSets, TLC

\* ---------------------------------------------------------------- bounds
MaxFeed == 2    \* largest --limit, hence most items in one feed response
MaxList == 2    \* most members in one list response

\* ------------------------------------------------------ string primitives
StartsWith(s, p) == Len(s) >= Len(p) /\ SubSeq(s, 1, Len(p)) = p

\* Python's `p in s` for strings
Contains(s, p) ==
    \E i \in 1..(Len(s) - Len(p) + 1) : SubSeq(s, i, i + Len(p) - 1) = p

\* s.find(c) for c in chars, 1-based, 0 when absent
Find(s, chars) ==
    IF \E i \in 1..Len(s) : s[i] \in chars
    THEN CHOOSE i \in 1..Len(s) :
            s[i] \in chars /\ \A j \in 1..(i - 1) : s[j] \notin chars
    ELSE 0

\* One left-to-right scan: w = << rest of the string, pieces closed so far,
\* piece being read >>.
SplitScan[w \in Seq(STRING) \X Seq(Seq(STRING)) \X Seq(STRING)] ==
    IF w[1] = << >> THEN Append(w[2], w[3])
    ELSE IF Head(w[1]) = "/"
         THEN SplitScan[<< Tail(w[1]), Append(w[2], w[3]), << >> >>]
         ELSE SplitScan[<< Tail(w[1]), w[2], Append(w[3], Head(w[1])) >>]

\* s.split("/"): the pieces between the separators, empty ones included
SplitSlash[s \in Seq(STRING)] == SplitScan[<< s, << >>, << >> >>]

\* [p for p in ps if p]
NonEmpty(ps) == SelectSeq(ps, LAMBDA p : p # << >>)

\* urlsplit: "<scheme>:" is taken off when what precedes the first ":" can
\* be a scheme
StripScheme[url \in Seq(STRING)] ==
    LET colon == Find(url, {":"})
    IN  IF colon > 1 /\ \A j \in 1..(colon - 1) : url[j] \notin {"/", "?", "#", ":"}
        THEN SubSeq(url, colon + 1, Len(url))
        ELSE url

\* urlsplit: the path ends where the query or the fragment begins
PathPart[t \in Seq(STRING)] ==
    LET cut == Find(t, {"?", "#"})
    IN  IF cut = 0 THEN t ELSE SubSeq(t, 1, cut - 1)

\* urlsplit: after "//" the netloc runs up to the first of "/", "?", "#"
SplitNetloc[a \in Seq(STRING)] ==
    LET delim == Find(a, {"/", "?", "#"})
    IN  IF delim = 0
        THEN [netloc |-> a, path |-> << >>]
        ELSE [netloc |-> SubSeq(a, 1, delim - 1),
              path   |-> PathPart[SubSeq(a, delim, Len(a))]]

\* urllib.parse.urlparse, restricted to the fields the program reads
urlparse[url \in Seq(STRING)] ==
    LET rest == StripScheme[url]
    IN  IF StartsWith(rest, << "/", "/" >>)
        THEN SplitNetloc[SubSeq(rest, 3, Len(rest))]
        ELSE [netloc |-> << >>, path |-> PathPart[rest]]

\* ------------------------------------------------------- program literals
AT_SCHEME      == << "at", ":", "/", "/" >>
DID_PREFIX     == << "did", ":" >>
BSKY_APP       == << "bsky", ".", "app" >>
PROFILE        == << "profile" >>
FEED           == << "feed" >>
LISTS          == << "lists" >>
FEED_GENERATOR == << "app", ".", "bsky", ".", "feed", ".", "generator" >>
GRAPH_LIST     == << "app", ".", "bsky", ".", "graph", ".", "list" >>
FEED_MARKER    == << "feed", ".", "generator" >>

\* The record type and the name in each other's place.
AtUriSwapped(owner, record_type, list_name) ==
    AT_SCHEME \o owner \o << "/" >> \o list_name \o << "/" >> \o record_type

\* f"at://{did}/{record_type}/{list_name}"
AtUri(owner, record_type, list_name) ==
    AT_SCHEME \o owner \o << "/" >> \o record_type \o << "/" >> \o list_name

\* ----------------------------------------------- convert_url_to_at_uri
ErrUrl     == "Not a valid Bluesky URL"
ErrFeedUrl == "Not a valid Bluesky feed URL"
ErrType    == "Unknown feed type"

Uri(u)          == [tag |-> "uri", uri |-> u]
Tuple(h, n, rt) == [tag |-> "tuple", identifier |-> h, list_name |-> n, record_type |-> rt]
Raise(m)        == [tag |-> "error", msg |-> m]

\* The host test left out: any host is accepted.
IsBlueskyHostAnyHost(netloc) == TRUE

\* line 20: parsed.netloc == 'bsky.app'
IsBlueskyHost(netloc) == netloc = BSKY_APP

\* The prefix test left out: a handle is taken for a DID.
IsDidAnyIdentifier(identifier) == TRUE

\* line 41: identifier.startswith('did:')
IsDid(identifier) == StartsWith(identifier, DID_PREFIX)

convert_url_to_at_uri(url) ==
    IF StartsWith(url, AT_SCHEME) THEN Uri(url)
    ELSE
    LET parsed == urlparse[url]
        parts  == NonEmpty(SplitSlash[parsed.path])
    IN  IF ~IsBlueskyHost(parsed.netloc) THEN Raise(ErrUrl)
        ELSE IF Len(parts) < 4 \/ parts[1] # PROFILE THEN Raise(ErrFeedUrl)
        ELSE
        LET identifier == parts[2]
            feed_type  == parts[3]
            list_name  == parts[4]
        IN  IF feed_type \notin {FEED, LISTS} THEN Raise(ErrType)
            ELSE
            LET record_type == IF feed_type = FEED THEN FEED_GENERATOR ELSE GRAPH_LIST
            IN  IF IsDid(identifier)
                THEN Uri(AtUri(identifier, record_type, list_name))
                ELSE Tuple(identifier, list_name, record_type)

\* --------------------------------------------------------- get_feed_users
\* One item of response.feed: a post with or without an author attribute.
Author(d, h) == [author |-> TRUE, did |-> d, handle |-> h]
NoAuthor     == [author |-> FALSE, did |-> "", handle |-> ""]

User(d, h) == [did |-> d, handle |-> h]

\* The set built by lines 94-97: tuples (did, handle).
AuthorTuples(feed) ==
    { << feed[i].did, feed[i].handle >> : i \in { j \in 1..Len(feed) : feed[j].author } }

\* Every order in which iterating a Python set can yield its elements.
Orderings(S) ==
    { f \in [1..Cardinality(S) -> S] :
        \A i, j \in 1..Cardinality(S) : i # j => f[i] # f[j] }

\* The lists line 99 can return for one response.
get_feed_users(feed) ==
    { [i \in 1..Len(ord) |-> User(ord[i][1], ord[i][2])] :
        ord \in Orderings(AuthorTuples(feed)) }

\* lines 139-140: one record per membership item, in remote order
list_users(items) ==
    [i \in 1..Len(items) |-> User(items[i].did, items[i].handle)]

\* json.dump(users): an array of objects, each an ordered list of
\* (key, value) members.
JsonDump(us) ==
    [i \in 1..Len(us) |-> << << "did", us[i].did >>, << "handle", us[i].handle >> >>]

\* ------------------------------------------------------------ environment
\* Accounts the service can return: three accounts, one of them seen under
\* two handles.
Accounts ==
    { User("did:plc:u1", "u1.test"), User("did:plc:u1", "u1.renamed"),
      User("did:plc:u2", "u2.test"), User("did:plc:u3", "u3.test") }

FeedItems == { Author(a.did, a.handle) : a \in Accounts } \cup { NoAuthor }

SeqsUpTo(S, n) == UNION { [1..k -> S] : k \in 0..n }

FeedResponses(n) == SeqsUpTo(FeedItems, n)

\* List membership is unique per subject.
ListResponses ==
    { r \in SeqsUpTo(Accounts, MaxList) :
        \A i, j \in 1..Len(r) : i # j => r[i].did # r[j].did }

DidAbc  == << "did", ":", "plc", ":", "abc" >>
DidQrs  == << "did", ":", "plc", ":", "qrs" >>
Alice   == << "alice", ".", "example" >>
Xyz     == << "xyz" >>

\* What com.atproto.identity.resolve_handle can answer.
ResolvedDids == { DidAbc, DidQrs }

Https == << "https", ":", "/", "/" >>

RECURSIVE PathOf(_)
PathOf(segs) ==
    IF segs = << >> THEN << >> ELSE << "/" >> \o Head(segs) \o PathOf(Tail(segs))

WebUrl(host, identifier, feed_type, name) ==
    Https \o host \o PathOf(<< PROFILE, identifier, feed_type, name >>)

Identifiers == { DidAbc, Alice }
Names       == { Xyz, FEED_MARKER }

\* The accepted grammar: https://bsky.app/profile/<identifier>/<feed|lists>/<name>
ValidWebUrls ==
    { WebUrl(BSKY_APP, i, t, n) : i \in Identifiers, t \in {FEED, LISTS}, n \in Names }

OtherInputs ==
    { WebUrl(<< "evil", ".", "example" >>, DidAbc, LISTS, Xyz),
      WebUrl(<< "evil", ".", "example" >>, Alice, FEED, Xyz),
      WebUrl(<< "evil", ".", "example" >>, Alice, << "posts" >>, Xyz),
      Https \o << "evil", ".", "example" >>,
      BSKY_APP \o PathOf(<< PROFILE, Alice, FEED, Xyz >>),
      Https \o BSKY_APP \o PathOf(<< PROFILE, Alice >>),
      Https \o BSKY_APP \o PathOf(<< << "about" >>, Alice, FEED, Xyz >>),
      WebUrl(BSKY_APP, Alice, << "posts" >>, Xyz),
      WebUrl(BSKY_APP, Alice, FEED, Xyz) \o << "?", "ref" >>,
      Https \o BSKY_APP \o << "/" >> \o PathOf(<< PROFILE, DidAbc, LISTS, Xyz >>) \o << "/" >>,
      AtUri(DidAbc, GRAPH_LIST, Xyz),
      AtUri(DidAbc, FEED_GENERATOR, Xyz),
      AtUri(Alice, GRAPH_LIST, Xyz),
      AtUri(Alice, FEED_GENERATOR, Xyz) }

Inputs == ValidWebUrls \cup OtherInputs

\* ------------------------------------------------------------------ state
VARIABLES
    pc,          \* position of the process_list coroutine
    list_input,  \* argument: the URL or AT URI
    action,      \* argument: "block" or "mute"
    dry_run,     \* argument
    limit,       \* argument
    did,         \* local of line 124, << >> while unbound
    list_uri,    \* local of lines 125/128, << >> while unbound
    users,       \* local of lines 135/139
    file,        \* output file: << >> until written, then << content >>
    counters,    \* the locals processed and errors; empty domain while unbound
    idx,         \* position of the for loop of line 158 in users
    trace,       \* remote calls, file writes and sleeps, in program order
    error        \* message printed by line 189, "" when none

vars == << pc, list_input, action, dry_run, limit, did, list_uri, users,
           file, counters, idx, trace, error >>

Unbound == [n \in {} |-> 0]

Event(op, arg, ok) == [op |-> op, arg |-> arg, ok |-> ok]

Init ==
    /\ pc = "Unauthenticated"
    /\ list_input \in Inputs
    /\ action \in {"block", "mute"}
    /\ dry_run \in BOOLEAN
    /\ limit \in 1..MaxFeed
    /\ did = << >>
    /\ list_uri = << >>
    /\ users = << >>
    /\ file = << >>
    /\ counters = Unbound
    /\ idx = 0
    /\ trace = << >>
    /\ error = ""

\* line 188-190: the outer handler prints the error and returns
Abort(msg) ==
    /\ pc' = "AbortedWithError"
    /\ error' = msg

\* A failed login that does not stop the run.
LoginIgnoringFailure ==
    /\ pc = "Unauthenticated"
    /\ \E ok \in BOOLEAN :
        /\ trace' = Append(trace, Event("login", "", ok))
        /\ pc' = "Authenticated"
        /\ UNCHANGED error
    /\ UNCHANGED << list_input, action, dry_run, limit, did, list_uri, users,
                    file, counters, idx >>

\* line 115: client.login
Login ==
    /\ pc = "Unauthenticated"
    /\ \E ok \in BOOLEAN :
        /\ trace' = Append(trace, Event("login", "", ok))
        /\ IF ok THEN pc' = "Authenticated" /\ UNCHANGED error
                 ELSE Abort("login failed")
    /\ UNCHANGED << list_input, action, dry_run, limit, did, list_uri, users,
                    file, counters, idx >>

\* lines 119-130: convert_url_to_at_uri, then resolve_handle_to_did for a tuple
Resolve ==
    /\ pc = "Authenticated"
    /\ LET result == convert_url_to_at_uri(list_input)
       IN  CASE result.tag = "error" ->
                  /\ Abort(result.msg)
                  /\ UNCHANGED << did, list_uri, trace >>
             [] result.tag = "uri" ->
                  /\ list_uri' = result.uri
                  /\ pc' = "Resolved"
                  /\ UNCHANGED << did, trace, error >>
             [] result.tag = "tuple" ->
                  \/ \E d \in ResolvedDids :
                        /\ trace' = Append(trace, Event("resolve_handle", "", TRUE))
                        /\ did' = d
                        /\ list_uri' = AtUri(d, result.record_type, result.list_name)
                        /\ pc' = "Resolved"
                        /\ UNCHANGED error
                  \/ /\ trace' = Append(trace, Event("resolve_handle", "", FALSE))
                     /\ Abort("resolve_handle failed")
                     /\ UNCHANGED << did, list_uri >>
    /\ UNCHANGED << list_input, action, dry_run, limit, users, file, counters, idx >>

\* lines 133-140: feed read or list read, chosen by substring test
Enumerate ==
    /\ pc = "Resolved"
    /\ IF Contains(list_uri, FEED_MARKER)
       THEN \/ \E feed \in FeedResponses(limit) :
                 /\ users' \in get_feed_users(feed)
                 /\ trace' = Append(trace, Event("get_feed", "", TRUE))
                 /\ pc' = "Enumerated"
                 /\ UNCHANGED error
            \/ /\ trace' = Append(trace, Event("get_feed", "", FALSE))
               /\ Abort("get_feed failed")
               /\ UNCHANGED users
       ELSE \/ \E items \in ListResponses :
                 /\ users' = list_users(items)
                 /\ trace' = Append(trace, Event("get_list", "", TRUE))
                 /\ pc' = "Enumerated"
                 /\ UNCHANGED error
            \/ /\ trace' = Append(trace, Event("get_list", "", FALSE))
               /\ Abort("get_list failed")
               /\ UNCHANGED users
    /\ UNCHANGED << list_input, action, dry_run, limit, did, list_uri, file,
                    counters, idx >>

\* The snapshot skipped.
PersistSkipped ==
    /\ pc = "Enumerated"
    /\ pc' = "Persisted"
    /\ UNCHANGED << list_input, action, dry_run, limit, did, list_uri, users,
                    file, counters, idx, trace, error >>

\* lines 143-146: open(output_file, 'w'); json.dump(users, f, indent=2)
Persist ==
    /\ pc = "Enumerated"
    /\ file' = << JsonDump(users) >>
    /\ trace' = Append(trace, Event("write", "", TRUE))
    /\ pc' = "Persisted"
    /\ UNCHANGED << list_input, action, dry_run, limit, did, list_uri, users,
                    counters, idx, error >>

\* lines 148-152: the dry-run report, then return
DryRunReport ==
    /\ pc = "Persisted"
    /\ dry_run
    /\ pc' = "DryRunReported"
    /\ UNCHANGED << list_input, action, dry_run, limit, did, list_uri, users,
                    file, counters, idx, trace, error >>

\* The dry-run return of line 152 left out.
StartActionsDespiteDryRun ==
    /\ pc = "Persisted"
    /\ counters' = [processed |-> 0, errors |-> 0]
    /\ idx' = 1
    /\ pc' = "Executing"
    /\ UNCHANGED << list_input, action, dry_run, limit, did, list_uri, users,
                    file, trace, error >>

\* lines 155-157: processed = 0; errors = 0; enter the loop
StartActions ==
    /\ pc = "Persisted"
    /\ ~dry_run
    /\ counters' = [processed |-> 0, errors |-> 0]
    /\ idx' = 1
    /\ pc' = "Executing"
    /\ UNCHANGED << list_input, action, dry_run, limit, did, list_uri, users,
                    file, trace, error >>

\* The except clause outside the loop: the first failure ends the batch.
AttemptStoppingOnFailure ==
    /\ pc = "Executing"
    /\ idx <= Len(users)
    /\ \E ok \in BOOLEAN :
        IF ok
        THEN /\ trace' = trace \o << Event(action, users[idx].did, TRUE),
                                    Event("sleep", "", TRUE) >>
             /\ counters' = [counters EXCEPT !.processed = @ + 1]
             /\ idx' = idx + 1
        ELSE /\ trace' = Append(trace, Event(action, users[idx].did, FALSE))
             /\ counters' = [counters EXCEPT !.errors = @ + 1]
             /\ idx' = Len(users) + 1
    /\ UNCHANGED << pc, list_input, action, dry_run, limit, did, list_uri,
                    users, file, error >>

\* lines 158-184: one iteration of the loop, its try and its except
Attempt ==
    /\ pc = "Executing"
    /\ idx <= Len(users)
    /\ \E ok \in BOOLEAN :
        IF ok
        THEN /\ trace' = trace \o << Event(action, users[idx].did, TRUE),
                                    Event("sleep", "", TRUE) >>
             /\ counters' = [counters EXCEPT !.processed = @ + 1]
        ELSE /\ trace' = Append(trace, Event(action, users[idx].did, FALSE))
             /\ counters' = [counters EXCEPT !.errors = @ + 1]
    /\ idx' = idx + 1
    /\ UNCHANGED << pc, list_input, action, dry_run, limit, did, list_uri,
                    users, file, error >>

\* line 186: the loop is exhausted, the summary is printed
Complete ==
    /\ pc = "Executing"
    /\ idx > Len(users)
    /\ pc' = "Executed"
    /\ UNCHANGED << list_input, action, dry_run, limit, did, list_uri, users,
                    file, counters, idx, trace, error >>

\* lines 152 and 186: process_list returns
Return ==
    /\ pc \in {"DryRunReported", "Executed"}
    /\ pc' = "Done"
    /\ UNCHANGED << list_input, action, dry_run, limit, did, list_uri, users,
                    file, counters, idx, trace, error >>

Next ==
    \/ Login
    \/ Resolve
    \/ Enumerate
    \/ Persist
    \/ DryRunReport
    \/ StartActions
    \/ Attempt
    \/ Complete
    \/ Return

Spec == Init /\ [][Next]_vars

\* asyncio.run drives the coroutine until it returns; every call it makes
\* returns or raises.
FairSpec == Spec /\ WF_vars(Next)

\* ------------------------------------------------------------ properties
IsAttempt(e) == e.op \in {"block", "mute"}

Has(op, ok) == \E k \in 1..Len(trace) : trace[k].op = op /\ trace[k].ok = ok

Called(op) == Has(op, TRUE) \/ Has(op, FALSE)

Attempts == SelectSeq(trace, IsAttempt)

IsOk(e)     == e.ok
IsFailed(e) == ~e.ok

\* C1: between any two consecutive block/mute attempts a sleep is taken,
\* whether the first of them succeeded or raised.
C1_PauseBetweenAttempts ==
    \A k, m \in 1..Len(trace) :
        (k < m /\ IsAttempt(trace[k]) /\ IsAttempt(trace[m]))
            => \E j \in (k + 1)..(m - 1) : trace[j].op = "sleep"

\* C2: the users a feed read yields never hold the same did twice.
C2_FeedUsersUniqueDid ==
    Has("get_feed", TRUE) =>
        \A a, b \in 1..Len(users) : a # b => users[a].did # users[b].did

\* C3: when the action loop has finished, processed + errors is the number
\* of users, processed counts the successful and errors the failed attempts,
\* and the attempts are the users, each once, in sequence order.
C3_EveryUserAttemptedOnce ==
    pc \in {"Executed", "Done"} /\ ~dry_run =>
        /\ counters.processed + counters.errors = Len(users)
        /\ counters.processed = Len(SelectSeq(Attempts, IsOk))
        /\ counters.errors = Len(SelectSeq(Attempts, IsFailed))
        /\ Len(Attempts) = Len(users)
        /\ \A k \in 1..Len(users) :
              Attempts[k].op = action /\ Attempts[k].arg = users[k].did

\* A finished batch of two whose first user failed and whose second succeeded.
C3_Witness ==
    /\ pc = "Executed"
    /\ Len(users) = 2
    /\ counters.processed = 1
    /\ counters.errors = 1
    /\ ~Attempts[1].ok

\* C4: a dry run never submits a block or a mute and never binds the
\* counters, and when it has ended the output file holds the users.
C4_DryRunHasNoActions ==
    dry_run =>
        /\ ~Called("block") /\ ~Called("mute")
        /\ DOMAIN counters = {}
        /\ pc \notin {"Executing", "Executed"}
        /\ pc = "Done" => Has("write", TRUE) /\ Len(file) = 1 /\ Len(file[1]) = Len(users)

C4_Witness ==
    dry_run /\ pc = "Done" /\ action = "block" /\ Len(users) = 2

Writes == SelectSeq(trace, LAMBDA e : e.op = "write")

\* C5: every block or mute comes after the one write of the output file,
\* the file holds the enumerated users in order, it is written at most once,
\* and the action loop leaves it as it was.
C5_SnapshotBeforeActions ==
    /\ [](/\ Len(Writes) <= 1
          /\ \A k \in 1..Len(trace) :
                IsAttempt(trace[k]) => \E j \in 1..(k - 1) : trace[j].op = "write"
          /\ Has("write", TRUE) =>
                /\ Len(file) = 1
                /\ Len(file[1]) = Len(users)
                /\ \A k \in 1..Len(users) :
                      file[1][k] = << << "did", users[k].did >>,
                                      << "handle", users[k].handle >> >>)
    /\ [][pc = "Executing" => file' = file /\ users' = users]_vars

C5_Witness ==
    pc = "Executing" /\ idx = 3 /\ Len(file) = 1 /\ Len(file[1]) = 2

\* The owning-account component of an AT URI: what stands between the
\* scheme prefix and the next "/".
Owner(uri) == SplitSlash[SubSeq(uri, Len(AT_SCHEME) + 1, Len(uri))][1]

InputParts == NonEmpty(SplitSlash[urlparse[list_input].path])

\* C6 as stated: the owner of every list_uri handed to enumeration is a
\* did: literal or the output of handle resolution, at:// inputs included.
C6_OwnerNeverRawHandle ==
    list_uri # << >> =>
        \/ StartsWith(Owner(list_uri), DID_PREFIX)
        \/ did # << >> /\ Owner(list_uri) = did

\* C6 amended: for an input that does not start with at://, the owner of
\* list_uri is the did: literal of the URL or the did that resolve_handle
\* returned; an input that starts with at:// is handed on unchanged.
C6_OwnerResolvedUnlessNative ==
    list_uri # << >> =>
        IF StartsWith(list_input, AT_SCHEME)
        THEN list_uri = list_input /\ ~Called("resolve_handle")
        ELSE IF StartsWith(InputParts[2], DID_PREFIX)
             THEN Owner(list_uri) = InputParts[2] /\ ~Called("resolve_handle")
             ELSE /\ Has("resolve_handle", TRUE)
                  /\ did \in ResolvedDids
                  /\ Owner(list_uri) = did
                  /\ Owner(list_uri) # InputParts[2]

C6_Witness ==
    /\ pc = "Resolved"
    /\ list_input \in ValidWebUrls
    /\ InputParts[2] = Alice
    /\ Owner(list_uri) = DidQrs

\* C7: a URL of the accepted grammar becomes
\* at://<stable id>/<record type of segment 3>/<name>, the stable id being
\* the did of the URL or the resolved one, and converting the result again
\* returns it unchanged.
C7_CanonicalAndIdempotent ==
    list_uri # << >> =>
        /\ \A i \in Identifiers, n \in Names :
              /\ list_input = WebUrl(BSKY_APP, i, FEED, n) =>
                    list_uri = AT_SCHEME
                                 \o (IF StartsWith(i, DID_PREFIX) THEN i ELSE did)
                                 \o << "/" >> \o FEED_GENERATOR \o << "/" >> \o n
              /\ list_input = WebUrl(BSKY_APP, i, LISTS, n) =>
                    list_uri = AT_SCHEME
                                 \o (IF StartsWith(i, DID_PREFIX) THEN i ELSE did)
                                 \o << "/" >> \o GRAPH_LIST \o << "/" >> \o n
        /\ list_input \in ValidWebUrls => StartsWith(Owner(list_uri), DID_PREFIX)
        /\ convert_url_to_at_uri(list_uri) = Uri(list_uri)

C7_Witness ==
    /\ pc = "Resolved"
    /\ list_input = WebUrl(BSKY_APP, Alice, LISTS, Xyz)
    /\ list_uri = AT_SCHEME \o DidQrs \o << "/" >> \o GRAPH_LIST \o << "/" >> \o Xyz

ForeignHost ==
    ~StartsWith(list_input, AT_SCHEME) /\ urlparse[list_input].netloc # BSKY_APP

\* C8: an input that is not an AT URI and whose host is not bsky.app is
\* refused with "Not a valid Bluesky URL", and the run makes no handle
\* resolution, no feed or list read and no block or mute.
C8_ForeignHostRefused ==
    ForeignHost =>
        /\ \A op \in {"resolve_handle", "get_feed", "get_list", "block", "mute", "write"} :
              ~Called(op)
        /\ list_uri = << >>
        /\ pc \in {"Unauthenticated", "Authenticated", "AbortedWithError"}
        /\ pc = "AbortedWithError" /\ Has("login", TRUE) => error = ErrUrl

C8_Witness ==
    /\ list_input = WebUrl(<< "evil", ".", "example" >>, DidAbc, LISTS, Xyz)
    /\ pc = "AbortedWithError"
    /\ error = ErrUrl

\* C9: a web URL whose segment 3 is lists is enumerated by the list read and
\* never by the feed read, and one whose segment 3 is feed by the feed read
\* and never by the list read.
C9_DispatchOnSegment3 ==
    ~StartsWith(list_input, AT_SCHEME) /\ list_uri # << >> =>
        /\ InputParts[3] = LISTS =>
              ~Called("get_feed") /\ (pc # "Resolved" => Called("get_list"))
        /\ InputParts[3] = FEED =>
              ~Called("get_list") /\ (pc # "Resolved" => Called("get_feed"))

Rank(s) ==
    CASE s = "Unauthenticated"  -> 0
      [] s = "Authenticated"    -> 1
      [] s = "Resolved"         -> 2
      [] s = "Enumerated"       -> 3
      [] s = "Persisted"        -> 4
      [] s = "Executing"        -> 5
      [] s = "DryRunReported"   -> 6
      [] s = "Executed"         -> 6
      [] s = "Done"             -> 7
      [] s = "AbortedWithError" -> 7

Edges ==
    { << "Unauthenticated", "Authenticated" >>, << "Authenticated", "Resolved" >>,
      << "Resolved", "Enumerated" >>, << "Enumerated", "Persisted" >>,
      << "Persisted", "DryRunReported" >>, << "Persisted", "Executing" >>,
      << "Executing", "Executed" >>, << "DryRunReported", "Done" >>,
      << "Executed", "Done" >>,
      << "Unauthenticated", "AbortedWithError" >>,
      << "Authenticated", "AbortedWithError" >>,
      << "Resolved", "AbortedWithError" >> }

FatalFailure ==
    \/ Has("login", FALSE)
    \/ Has("resolve_handle", FALSE)
    \/ Has("get_feed", FALSE)
    \/ Has("get_list", FALSE)
    \/ pc # "Authenticated" /\ Has("login", TRUE)
          /\ convert_url_to_at_uri(list_input).tag = "error"

\* C10: the run moves forward along the fixed chain of stages and never
\* re-enters one; a failed login, resolution or enumeration ends it in
\* AbortedWithError with no file written and no block or mute made; the two
\* terminal stages are left by no step, and every run reaches one of them.
C10_LinearRunAbortsOnFatalFailure ==
    /\ [][pc' # pc => << pc, pc' >> \in Edges /\ Rank(pc') > Rank(pc)]_vars
    /\ [][pc \notin {"Done", "AbortedWithError"}]_vars
    /\ [](FatalFailure =>
            /\ pc = "AbortedWithError"
            /\ file = << >>
            /\ ~Called("write") /\ ~Called("block") /\ ~Called("mute"))
    /\ [](pc = "AbortedWithError" => FatalFailure)
    /\ <>(pc \in {"Done", "AbortedWithError"})

C10_Witness ==
    /\ pc = "AbortedWithError"
    /\ Has("resolve_handle", TRUE)
    /\ Has("get_feed", FALSE)
====
